---- MODULE Spec2Model ----
(***************************************************************************)
(* HealthStay Tourism Lead Dashboard (src/app.py).                         *)
(*                                                                         *)
(* Three specifications over one set of variables:                         *)
(*   SpecTrim    trim_messages applied to arbitrary message lists;         *)
(*   SpecFilter  the sidebar filter stage applied to arbitrary tables;     *)
(*   Spec        one execution of the script, top to bottom.               *)
(*                                                                         *)
(* Text values are sequences of pieces; concatenation is \o and the        *)
(* tokenizer counts a fixed number of tokens for each piece.               *)
(***************************************************************************)
EXTENDS Integers, Sequences, FiniteSets, TLC

VARIABLES
    pc,                \* position of the run (or of the function under test)
    t_messages,        \* SpecTrim: argument messages of trim_messages
    t_max_tokens,      \* SpecTrim: argument max_tokens of trim_messages
    t_result,          \* SpecTrim: the list trim_messages returned
    df,                \* the table read from the CSV file
    status_filter,     \* sidebar selections
    country_filter,
    agent_filter,
    filtered_df,       \* the filtered table
    refiltered_df,     \* SpecFilter: the filter stage applied to filtered_df
    user_question,     \* value of the text input (TRUE: non-empty)
    button,            \* value st.button returned
    messages,          \* conversation built on the question path
    trimmed_messages,  \* trim_messages(messages)
    insight_messages,  \* conversation built on the insights path
    requests,          \* requests sent to the remote chat API, in order
    chart_config,      \* parsed tool-call arguments
    df_to_plot,        \* rows handed to the chart renderer
    display,           \* what the page shows, in order
    response,          \* what the question request came back with
    raised             \* exceptions raised inside the try blocks, in order

vars == <<pc, t_messages, t_max_tokens, t_result, df, status_filter,
          country_filter, agent_filter, filtered_df, refiltered_df,
          user_question, button, messages, trimmed_messages,
          insight_messages, requests, chart_config, df_to_plot, display,
          response, raised>>

trimVars == <<t_messages, t_max_tokens, t_result>>
filterVars == <<df, status_filter, country_filter, agent_filter,
                filtered_df, refiltered_df>>
appVars == <<user_question, button, messages, trimmed_messages,
             insight_messages, requests, chart_config, df_to_plot,
             display, response, raised>>

(***************************************************************************)
(* Bounds                                                                  *)
(***************************************************************************)
MaxMessages == 3      \* longest message list given to trim_messages
MaxBudget == 7        \* largest max_tokens given to trim_messages
MaxRows == 2          \* most rows of a table in SpecFilter
MaxAppRows == 2       \* most rows of a table in Spec

(***************************************************************************)
(* Tokenizer                                                               *)
(***************************************************************************)
MAX_TOKENS == 5000

SYSTEM_PROMPT == <<"SYSTEM_PROMPT">>

\* Number of tokens the encoding yields for one piece of text. A CSV line is
\* short or long with the free text of its row; two long lines are past
\* MAX_TOKENS, as the 50 lines of a real snippet can be.
PieceTokens(p) ==
    CASE p = "system" -> 1
      [] p = "user" -> 1
      [] p = "assistant" -> 1
      [] p = "word" -> 1
      [] p = "SYSTEM_PROMPT" -> 45
      [] p = "dataset_prefix" -> 6
      [] p = "question" -> 12
      [] p = "insights_prefix" -> 24
      [] p = "csv_header" -> 40
      [] p = "csv_row_short" -> 60
      [] p = "csv_row_long" -> 2500
      [] OTHER -> 1

RECURSIVE EncodeLen(_)
\* len(encoding.encode(v))
EncodeLen(v) ==
    IF v = <<>> THEN 0 ELSE PieceTokens(Head(v)) + EncodeLen(Tail(v))

\* sum(len(encoding.encode(v)) for v in message.values())
MessageTokens(message) ==
    EncodeLen(message.role) + EncodeLen(message.content)

\* A defect: the running total is compared without the message's own cost.
ExceedsBudgetIgnoringMessage(total_tokens, message_tokens, max_tokens) ==
    total_tokens > max_tokens

\* A defect: a message that fills the budget exactly is rejected.
ExceedsBudgetOffByOne(total_tokens, message_tokens, max_tokens) ==
    total_tokens + message_tokens >= max_tokens

\* if total_tokens + message_tokens > max_tokens
ExceedsBudget(total_tokens, message_tokens, max_tokens) ==
    total_tokens + message_tokens > max_tokens

RECURSIVE TrimLoop(_, _, _, _, _)
\* The loop over reversed(messages): i is the index of the message visited
\* next (0: the scan has passed the oldest message).
TrimLoop(msgs, i, total_tokens, trimmed, max_tokens) ==
    IF i = 0 THEN trimmed
    ELSE LET message == msgs[i]
             message_tokens == MessageTokens(message)
         IN IF ExceedsBudget(total_tokens, message_tokens, max_tokens)
            THEN trimmed
            ELSE TrimLoop(msgs, i - 1, total_tokens + message_tokens,
                          <<message>> \o trimmed, max_tokens)

RECURSIVE TrimLoopSkipping(_, _, _, _, _)
\* A defect: the scan skips a message that does not fit and goes on
\* (continue in place of break).
TrimLoopSkipping(msgs, i, total_tokens, trimmed, max_tokens) ==
    IF i = 0 THEN trimmed
    ELSE LET message == msgs[i]
             message_tokens == MessageTokens(message)
         IN IF ExceedsBudget(total_tokens, message_tokens, max_tokens)
            THEN TrimLoopSkipping(msgs, i - 1, total_tokens, trimmed,
                                  max_tokens)
            ELSE TrimLoopSkipping(msgs, i - 1,
                                  total_tokens + message_tokens,
                                  <<message>> \o trimmed, max_tokens)

KeptSkipping(msgs, max_tokens) ==
    TrimLoopSkipping(msgs, Len(msgs), 0, <<>>, max_tokens)

\* The list the loop keeps, before the fallback of the return statement.
Kept(msgs, max_tokens) == TrimLoop(msgs, Len(msgs), 0, <<>>, max_tokens)

\* A defect: the return statement without its fallback.
trim_messages_no_fallback(msgs, max_tokens) == Kept(msgs, max_tokens)

\* trim_messages for a non-empty argument: trimmed or [messages[-1]]
trim_messages(msgs, max_tokens) ==
    LET trimmed == Kept(msgs, max_tokens)
    IN IF trimmed # <<>> THEN trimmed ELSE <<msgs[Len(msgs)]>>

(***************************************************************************)
(* SpecTrim: trim_messages on arbitrary arguments                          *)
(***************************************************************************)
Roles == {<<"system">>, <<"user">>, <<"assistant">>}
Contents == {<<>>, <<"word">>, <<"word", "word">>}
Message == [role : Roles, content : Contents]

RECURSIVE SeqsUpTo(_, _)
\* All sequences over S of length at most n.
SeqsUpTo(S, n) ==
    IF n = 0 THEN {<<>>}
    ELSE LET shorter == SeqsUpTo(S, n - 1)
         IN shorter \cup {Append(q, x) : q \in {r \in shorter : Len(r) = n - 1},
                                         x \in S}

RECURSIVE Cost(_)
\* Cumulative token cost of a message list.
Cost(msgs) ==
    IF msgs = <<>> THEN 0 ELSE MessageTokens(Head(msgs)) + Cost(Tail(msgs))

Last(q) == q[Len(q)]

AppIdle ==
    /\ user_question = FALSE
    /\ button = FALSE
    /\ messages = <<>>
    /\ trimmed_messages = <<>>
    /\ insight_messages = <<>>
    /\ requests = <<>>
    /\ chart_config = <<>>
    /\ df_to_plot = <<>>
    /\ display = <<>>
    /\ response = "none"
    /\ raised = <<>>

FilterIdle ==
    /\ df = <<>>
    /\ status_filter = {}
    /\ country_filter = {}
    /\ agent_filter = {}
    /\ filtered_df = <<>>
    /\ refiltered_df = <<>>

(***************************************************************************)
(* Tables and the filter stage                                             *)
(***************************************************************************)
NaN == "NaN"

\* A row is its index label and its cells, one per column.
Row(i, status, country, agent, reply) ==
    [idx |-> i,
     cells |-> [c \in {"Status", "Country", "Assigned To", "Patient Reply"} |->
                  CASE c = "Status" -> status
                    [] c = "Country" -> country
                    [] c = "Assigned To" -> agent
                    [] c = "Patient Reply" -> reply]]

Columns == {"Status", "Country", "Assigned To", "Patient Reply"}

Rows(table) == {table[i] : i \in 1..Len(table)}

\* df[col].unique()
Unique(table, col) == {r.cells[col] : r \in Rows(table)}

\* .dropna()
DropNa(values) == values \ {NaN}

\* Series.isin(values): membership, a missing value matching a missing value.
isin(v, values) == v \in values

\* A defect: the mask is shifted by one row against the table.
FilterByShiftedMask(table, col, selection) ==
    IF selection # {}
    THEN LET keep == {i \in 1..Len(table) :
                        i < Len(table) /\ isin(table[i + 1].cells[col], selection)}
             F[i \in 0..Len(table)] ==
                 IF i = 0 THEN <<>>
                 ELSE IF i \in keep THEN Append(F[i - 1], table[i])
                      ELSE F[i - 1]
         IN F[Len(table)]
    ELSE table

\* if <selection>: filtered_df = filtered_df[filtered_df[col].isin(<selection>)]
FilterBy(table, col, selection) ==
    IF selection # {}
    THEN SelectSeq(table, LAMBDA r : isin(r.cells[col], selection))
    ELSE table

\* A defect: each filter is applied to df, not to the table filtered so far,
\* and the last non-empty selection wins.
FilterStageUnchained(table, status, country, agent) ==
    IF agent # {} THEN FilterBy(table, "Assigned To", agent)
    ELSE IF country # {} THEN FilterBy(table, "Country", country)
    ELSE FilterBy(table, "Status", status)

\* filtered_df = df.copy() followed by the three conditional filters
FilterStage(table, status, country, agent) ==
    FilterBy(FilterBy(FilterBy(table, "Status", status),
                      "Country", country),
             "Assigned To", agent)

\* The tables of at most n rows with cells from the given set; the index
\* labels are 0, 1, ... as read_csv assigns them.
TablesOf(n, Cells) ==
    {[i \in 1..Len(q) |-> Row(i - 1, q[i].status, q[i].country,
                              q[i].agent, q[i].reply)] :
        q \in SeqsUpTo(Cells, n)}

FilterTables ==
    TablesOf(MaxRows, [status : {"New", "Converted", NaN},
                       country : {"UK", "Qatar", NaN},
                       agent : {"Ali", NaN},
                       reply : {"short"}])

InitFilter ==
    /\ pc = "filters"
    /\ df \in FilterTables
    /\ status_filter = {}
    /\ country_filter = {}
    /\ agent_filter = {}
    /\ filtered_df = <<>>
    /\ refiltered_df = <<>>
    /\ t_messages = <<>>
    /\ t_max_tokens = 0
    /\ t_result = <<>>
    /\ AppIdle

\* Lines 108-118: the three multiselects return subsets of their options,
\* and the filter stage computes filtered_df.
ApplyFilters ==
    /\ pc = "filters"
    /\ \E s \in SUBSET Unique(df, "Status"),
          c \in SUBSET DropNa(Unique(df, "Country")),
          a \in SUBSET DropNa(Unique(df, "Assigned To")) :
          /\ status_filter' = s
          /\ country_filter' = c
          /\ agent_filter' = a
          /\ filtered_df' = FilterStage(df, s, c, a)
    /\ pc' = "preview"
    /\ UNCHANGED <<df, refiltered_df, trimVars, appVars>>

\* The filter stage applied, with the same selections, to its own output.
Refilter ==
    /\ pc = "preview"
    /\ refiltered_df' = FilterStage(filtered_df, status_filter,
                                    country_filter, agent_filter)
    /\ pc' = "refiltered"
    /\ UNCHANGED <<df, status_filter, country_filter, agent_filter,
                   filtered_df, trimVars, appVars>>

NextFilter == ApplyFilters \/ Refilter

SpecFilter == InitFilter /\ [][NextFilter]_vars

Constrained(col) ==
    CASE col = "Status" -> status_filter
      [] col = "Country" -> country_filter
      [] col = "Assigned To" -> agent_filter

Filtered == pc \notin {"load", "filters"}

\* C5: the filtered table holds only rows of the table, and exactly those
\* whose value in every column with a non-empty selection belongs to the
\* selection; with every selection empty it is the table itself.
C5_FilterExact ==
    Filtered =>
        /\ Rows(filtered_df) \subseteq Rows(df)
        /\ \A r \in Rows(df) :
              r \in Rows(filtered_df) <=>
                  \A col \in {"Status", "Country", "Assigned To"} :
                      Constrained(col) # {} => r.cells[col] \in Constrained(col)
        /\ (status_filter = {} /\ country_filter = {} /\ agent_filter = {})
              => filtered_df = df

\* Two columns are constrained and a row passes one test and fails the other.
C5_Witness ==
    /\ Filtered
    /\ status_filter # {}
    /\ country_filter # {}
    /\ \E r \in Rows(df) :
          /\ r.cells["Status"] \in status_filter
          /\ r.cells["Country"] \notin country_filter
          /\ r \notin Rows(filtered_df)
    /\ filtered_df # <<>>

\* C6: filtering the filtered table again with the same selections gives
\* the same rows.
C6_FilterIdempotent ==
    pc = "refiltered" => refiltered_df = filtered_df

C6_Witness ==
    /\ pc = "refiltered"
    /\ status_filter # {}
    /\ filtered_df # <<>>
    /\ Len(filtered_df) < Len(df)
    /\ refiltered_df = filtered_df

InitTrim ==
    /\ pc = "trim_call"
    /\ t_messages \in SeqsUpTo(Message, MaxMessages)
    /\ t_max_tokens \in 0..MaxBudget
    /\ t_result = <<>>
    /\ FilterIdle
    /\ AppIdle

\* A call of trim_messages with a non-empty list.
TrimCall ==
    /\ pc = "trim_call"
    /\ t_messages # <<>>
    /\ t_result' = trim_messages(t_messages, t_max_tokens)
    /\ pc' = "trim_returned"
    /\ UNCHANGED <<t_messages, t_max_tokens, filterVars, appVars>>

\* A call with the empty list: the loop keeps nothing and messages[-1]
\* raises IndexError.
TrimCallEmpty ==
    /\ pc = "trim_call"
    /\ t_messages = <<>>
    /\ pc' = "trim_IndexError"
    /\ UNCHANGED <<trimVars, filterVars, appVars>>

NextTrim == TrimCall \/ TrimCallEmpty

SpecTrim == InitTrim /\ [][NextTrim]_vars

\* C1 as stated: the returned list never costs more than the budget.
C1_CostWithinBudget ==
    pc = "trim_returned" => Cost(t_result) <= t_max_tokens

\* C1 amended: the returned list costs no more than the budget, unless the
\* newest message alone costs more than the budget, and then the returned
\* list is that one message.
C1_CostWithinBudgetOrFallback ==
    pc = "trim_returned" =>
        \/ Cost(t_result) <= t_max_tokens
        \/ /\ MessageTokens(Last(t_messages)) > t_max_tokens
           /\ t_result = <<Last(t_messages)>>

C1_Witness ==
    /\ pc = "trim_returned"
    /\ Len(t_messages) = MaxMessages
    /\ Len(t_result) = 2
    /\ Cost(t_result) = t_max_tokens
    /\ Cost(t_messages) > t_max_tokens

\* C2: a non-empty list gives a non-empty result, and when the newest
\* message alone costs more than the budget the result is exactly that
\* message.
C2_NeverEmpty ==
    pc = "trim_returned" =>
        /\ t_result # <<>>
        /\ MessageTokens(Last(t_messages)) > t_max_tokens
              => t_result = <<Last(t_messages)>>

C2_Witness ==
    /\ pc = "trim_returned"
    /\ Len(t_messages) >= 2
    /\ MessageTokens(Last(t_messages)) > t_max_tokens
    /\ t_result = <<Last(t_messages)>>

\* C3: a conversation whose total cost is within the budget is returned
\* whole, in the same order.
C3_FitsUnchanged ==
    (pc = "trim_returned" /\ Cost(t_messages) <= t_max_tokens)
        => t_result = t_messages

C3_Witness ==
    /\ pc = "trim_returned"
    /\ Len(t_messages) = MaxMessages
    /\ Cost(t_messages) = t_max_tokens
    /\ t_result = t_messages

IsSuffixFrom(k, short, long) ==
    /\ k \in 1..Len(long)
    /\ short = SubSeq(long, k, Len(long))

\* C4: the result is a contiguous suffix of the input in the original
\* order, and the message just before the suffix is one that did not fit,
\* so nothing older than a dropped message is kept.
C4_ContiguousSuffix ==
    pc = "trim_returned" =>
        \E k \in 1..Len(t_messages) :
            /\ IsSuffixFrom(k, t_result, t_messages)
            /\ k > 1 => \/ Cost(t_result) + MessageTokens(t_messages[k - 1])
                               > t_max_tokens
                         \/ Cost(t_result) > t_max_tokens

\* An older message that would fit on its own is left out because a newer
\* one was dropped.
C4_Witness ==
    /\ pc = "trim_returned"
    /\ Len(t_messages) = 3
    /\ t_result = <<t_messages[3]>>
    /\ Cost(t_result) + MessageTokens(t_messages[2]) > t_max_tokens
    /\ Cost(t_result) + MessageTokens(t_messages[1]) <= t_max_tokens

(***************************************************************************)
(* Spec: one execution of the script                                       *)
(***************************************************************************)
AppTables ==
    TablesOf(MaxAppRows,
             {[status |-> "New", country |-> "Qatar", agent |-> "Ali",
               reply |-> "short"],
              [status |-> "Converted", country |-> "Qatar", agent |-> "Ali",
               reply |-> "long"],
              [status |-> "New", country |-> NaN, agent |-> "Ali",
               reply |-> "long"],
              [status |-> "Converted", country |-> NaN, agent |-> "Ali",
               reply |-> "short"]})

\* Rows of filtered_df.head(50)
HeadRows == 50

head(table, n) == SubSeq(table, 1, IF Len(table) < n THEN Len(table) ELSE n)

\* to_csv(index=False): the header line, then one line per row.
to_csv(table) ==
    <<"csv_header">> \o
    [i \in 1..Len(table) |->
        IF table[i].cells["Patient Reply"] = "long" THEN "csv_row_long"
        ELSE "csv_row_short"]

csv_data == to_csv(head(filtered_df, HeadRows))

\* messages of the question path
QuestionMessages ==
    <<[role |-> <<"system">>, content |-> SYSTEM_PROMPT],
      [role |-> <<"user">>,
       content |-> <<"dataset_prefix">> \o csv_data \o <<"question">>]>>

\* insight_messages of the insights path
InsightMessages ==
    <<[role |-> <<"system">>, content |-> SYSTEM_PROMPT],
      [role |-> <<"user">>,
       content |-> <<"insights_prefix">> \o csv_data]>>

\* A defect: the call is wrapped in a retry and goes out twice.
SendRequestWithRetry(reqs, path, msgs) ==
    reqs \o <<[path |-> path, messages |-> msgs],
              [path |-> path, messages |-> msgs]>>

\* client.chat.completions.create(messages=...): one request to the remote
\* chat API.
SendRequest(reqs, path, msgs) ==
    Append(reqs, [path |-> path, messages |-> msgs])

\* The parsed tool-call arguments: a dictionary that may lack any of its
\* keys and may carry a type outside the schema's enum. The filter is a
\* list of (column, value) pairs in the order of the dictionary.
ChartTypes == {"pie", "bar", "line", "scatter"}
SupportedTypes == {"pie", "bar", "line"}
ChartFilters ==
    {<<>>,
     <<<<"Status", "New">>>>,
     <<<<"Status", "New">>, <<"Country", "Qatar">>>>,
     <<<<"Referrer", "x">>>>}
ChartKeys == {"type", "x", "title", "filter"}

Absent == "<absent>"

\* The dictionary with the given entries, an Absent one left out.
Config(type, x, title, filter) ==
    LET full == [type |-> type, x |-> x, title |-> title,
                 filter |-> filter[2]]
        keys == {k \in ChartKeys :
                    CASE k = "type" -> type # Absent
                      [] k = "x" -> x # Absent
                      [] k = "title" -> title # Absent
                      [] k = "filter" -> filter[1]}
    IN [k \in keys |-> full[k]]

ChartConfigs ==
    {Config(t, x, ti, f) :
        t \in ChartTypes \cup {Absent},
        x \in {"Status", "Referrer", Absent},
        ti \in {"t", Absent},
        f \in {<<FALSE, <<>>>>} \cup {<<TRUE, g>> : g \in ChartFilters}}

\* chart_config.get(key, default)
Get(config, key, default) ==
    IF key \in DOMAIN config THEN config[key] ELSE default

\* Whether df_to_plot[col] raises KeyError for some pair of the filter.
FilterRaises(filter) ==
    \E i \in 1..Len(filter) : filter[i][1] \notin Columns

\* A missing value equals nothing.
Equals(v, val) == v # NaN /\ v = val

RECURSIVE ApplyChartFilter(_, _)
\* for col, val in ...items(): df_to_plot = df_to_plot[df_to_plot[col] == val]
ApplyChartFilter(table, filter) ==
    IF filter = <<>> THEN table
    ELSE ApplyChartFilter(
             SelectSeq(table, LAMBDA r : Equals(r.cells[Head(filter)[1]],
                                                Head(filter)[2])),
             Tail(filter))

\* A defect: the chart filter is applied to the whole table, replacing the
\* sidebar filters.
PlotSourceWholeTable == df

\* df_to_plot = filtered_df.copy()
PlotSource == filtered_df

Init ==
    /\ pc = "load"
    /\ FilterIdle
    /\ t_messages = <<>>
    /\ t_max_tokens = 0
    /\ t_result = <<>>
    /\ AppIdle

\* pd.read_csv succeeds.
LoadData ==
    /\ pc = "load"
    /\ df' \in AppTables
    /\ pc' = "filters"
    /\ UNCHANGED <<status_filter, country_filter, agent_filter, filtered_df,
                   refiltered_df, trimVars, appVars>>

\* pd.read_csv raises FileNotFoundError: the outer handler reports it.
DataFileMissing ==
    /\ pc = "load"
    /\ display' = Append(display, "error_data_file")
    /\ pc' = "done"
    /\ UNCHANGED <<filterVars, trimVars, user_question, button, messages,
                   trimmed_messages, insight_messages, requests,
                   chart_config, df_to_plot, response, raised>>

\* The data preview of a non-empty filtered table.
Preview ==
    /\ pc = "preview"
    /\ filtered_df # <<>>
    /\ display' = Append(display, "data_preview")
    /\ pc' = "text_input"
    /\ UNCHANGED <<filterVars, trimVars, user_question, button, messages,
                   trimmed_messages, insight_messages, requests,
                   chart_config, df_to_plot, response, raised>>

\* filtered_df.empty: the preview and the warning, nothing else.
PreviewEmpty ==
    /\ pc = "preview"
    /\ filtered_df = <<>>
    /\ display' = display \o <<"data_preview", "warning_no_data_after_filtering">>
    /\ pc' = "done"
    /\ UNCHANGED <<filterVars, trimVars, user_question, button, messages,
                   trimmed_messages, insight_messages, requests,
                   chart_config, df_to_plot, response, raised>>

\* The text input is empty.
NoQuestion ==
    /\ pc = "text_input"
    /\ user_question' = FALSE
    /\ pc' = "button"
    /\ UNCHANGED <<filterVars, trimVars, button, messages, trimmed_messages,
                   insight_messages, requests, chart_config, df_to_plot,
                   display, response, raised>>

\* The text input holds a question: the conversation is built and trimmed.
QuestionEntered ==
    /\ pc = "text_input"
    /\ user_question' = TRUE
    /\ messages' = QuestionMessages
    /\ trimmed_messages' = trim_messages(QuestionMessages, MAX_TOKENS)
    /\ pc' = "question_request"
    /\ UNCHANGED <<filterVars, trimVars, button, insight_messages, requests,
                   chart_config, df_to_plot, display, response, raised>>

\* except Exception as e: st.error("An error occurred: ...")
OnQuestionError(shown) == Append(shown, "error_occurred")

\* The request is sent and the call raises (network, auth, rate limit).
QuestionRequestFails ==
    /\ pc = "question_request"
    /\ requests' = SendRequest(requests, "question", trimmed_messages)
    /\ response' = "error"
    /\ raised' = Append(raised, [site |-> "question", kind |-> "api"])
    /\ display' = OnQuestionError(display)
    /\ pc' = "button"
    /\ UNCHANGED <<filterVars, trimVars, user_question, button, messages,
                   trimmed_messages, insight_messages, chart_config,
                   df_to_plot>>

\* The request is sent and the response carries no tool call.
QuestionAnswered ==
    /\ pc = "question_request"
    /\ requests' = SendRequest(requests, "question", trimmed_messages)
    /\ response' = "text"
    /\ display' = Append(display, "answer")
    /\ pc' = "button"
    /\ UNCHANGED <<filterVars, trimVars, user_question, button, messages,
                   trimmed_messages, insight_messages, chart_config,
                   df_to_plot, raised>>

\* The request is sent, the response carries a tool call and json.loads
\* raises on its arguments.
ToolCallMalformed ==
    /\ pc = "question_request"
    /\ requests' = SendRequest(requests, "question", trimmed_messages)
    /\ response' = "tool_call_malformed"
    /\ raised' = Append(raised, [site |-> "question", kind |-> "json"])
    /\ display' = OnQuestionError(display)
    /\ pc' = "button"
    /\ UNCHANGED <<filterVars, trimVars, user_question, button, messages,
                   trimmed_messages, insight_messages, chart_config,
                   df_to_plot>>

\* The request is sent, the response carries a tool call and its arguments
\* parse; the title is shown.
ToolCallParsed ==
    /\ pc = "question_request"
    /\ requests' = SendRequest(requests, "question", trimmed_messages)
    /\ response' = "tool_call"
    /\ chart_config' \in ChartConfigs
    /\ display' = Append(display, "chart_title")
    /\ pc' = "chart_filter"
    /\ UNCHANGED <<filterVars, trimVars, user_question, button, messages,
                   trimmed_messages, insight_messages, df_to_plot, raised>>

\* The filter names a column the table does not have: KeyError, caught.
ChartFilterRaises ==
    /\ pc = "chart_filter"
    /\ FilterRaises(Get(chart_config, "filter", <<>>))
    /\ raised' = Append(raised, [site |-> "question", kind |-> "filter"])
    /\ display' = OnQuestionError(display)
    /\ pc' = "button"
    /\ UNCHANGED <<filterVars, trimVars, user_question, button, messages,
                   trimmed_messages, insight_messages, requests,
                   chart_config, df_to_plot, response>>

\* The chart filter leaves no row: the warning, and no chart.
ChartNoData ==
    /\ pc = "chart_filter"
    /\ ~FilterRaises(Get(chart_config, "filter", <<>>))
    /\ df_to_plot' = ApplyChartFilter(PlotSource,
                                      Get(chart_config, "filter", <<>>))
    /\ df_to_plot' = <<>>
    /\ display' = Append(display, "warning_no_chart_data")
    /\ pc' = "button"
    /\ UNCHANGED <<filterVars, trimVars, user_question, button, messages,
                   trimmed_messages, insight_messages, requests,
                   chart_config, response, raised>>

\* The chart filter leaves rows to plot.
ChartData ==
    /\ pc = "chart_filter"
    /\ ~FilterRaises(Get(chart_config, "filter", <<>>))
    /\ df_to_plot' = ApplyChartFilter(PlotSource,
                                      Get(chart_config, "filter", <<>>))
    /\ df_to_plot' # <<>>
    /\ pc' = "chart_dispatch"
    /\ UNCHANGED <<filterVars, trimVars, user_question, button, messages,
                   trimmed_messages, insight_messages, requests,
                   chart_config, display, response, raised>>

\* chart_config["type"] or chart_config["x"] raises KeyError, caught.
ChartKeyError ==
    /\ pc = "chart_dispatch"
    /\ ~({"type", "x"} \subseteq DOMAIN chart_config)
    /\ raised' = Append(raised, [site |-> "question", kind |-> "key"])
    /\ display' = OnQuestionError(display)
    /\ pc' = "button"
    /\ UNCHANGED <<filterVars, trimVars, user_question, button, messages,
                   trimmed_messages, insight_messages, requests,
                   chart_config, df_to_plot, response>>

\* Whether the renderer can draw: the title is there and x is a column.
Renders(config) ==
    /\ "title" \in DOMAIN config
    /\ config["x"] \in Columns

\* A pie, bar or line chart is built and shown.
ChartRendered ==
    /\ pc = "chart_dispatch"
    /\ {"type", "x"} \subseteq DOMAIN chart_config
    /\ chart_config["type"] \in SupportedTypes
    /\ Renders(chart_config)
    /\ display' = Append(display, "chart")
    /\ pc' = "button"
    /\ UNCHANGED <<filterVars, trimVars, user_question, button, messages,
                   trimmed_messages, insight_messages, requests,
                   chart_config, df_to_plot, response, raised>>

\* Building the chart raises (chart_config["title"] is missing, or x is no
\* column of the table): caught.
ChartRenderFails ==
    /\ pc = "chart_dispatch"
    /\ {"type", "x"} \subseteq DOMAIN chart_config
    /\ chart_config["type"] \in SupportedTypes
    /\ ~Renders(chart_config)
    /\ raised' = Append(raised, [site |-> "question", kind |-> "render"])
    /\ display' = OnQuestionError(display)
    /\ pc' = "button"
    /\ UNCHANGED <<filterVars, trimVars, user_question, button, messages,
                   trimmed_messages, insight_messages, requests,
                   chart_config, df_to_plot, response>>

\* A defect: without st.stop() the run reaches st.plotly_chart(fig) with fig
\* unbound, and the NameError is caught by the handler.
ChartUnsupportedNoStop ==
    /\ pc = "chart_dispatch"
    /\ {"type", "x"} \subseteq DOMAIN chart_config
    /\ chart_config["type"] \notin SupportedTypes
    /\ raised' = Append(raised, [site |-> "question", kind |-> "name"])
    /\ display' = OnQuestionError(display \o <<"warning_unsupported_type",
                                               "chart_config_json">>)
    /\ pc' = "button"
    /\ UNCHANGED <<filterVars, trimVars, user_question, button, messages,
                   trimmed_messages, insight_messages, requests,
                   chart_config, df_to_plot, response>>

\* The type is none of pie, bar, line: the warning, the raw config, and
\* st.stop(), which ends the run past the handler (the exception it raises
\* is no Exception).
ChartUnsupported ==
    /\ pc = "chart_dispatch"
    /\ {"type", "x"} \subseteq DOMAIN chart_config
    /\ chart_config["type"] \notin SupportedTypes
    /\ display' = display \o <<"warning_unsupported_type", "chart_config_json">>
    /\ pc' = "stopped"
    /\ UNCHANGED <<filterVars, trimVars, user_question, button, messages,
                   trimmed_messages, insight_messages, requests,
                   chart_config, df_to_plot, response, raised>>

\* st.button returns False.
ButtonNotPressed ==
    /\ pc = "button"
    /\ button' = FALSE
    /\ pc' = "done"
    /\ UNCHANGED <<filterVars, trimVars, user_question, messages,
                   trimmed_messages, insight_messages, requests,
                   chart_config, df_to_plot, display, response, raised>>

\* st.button returns True, the request is sent and the insights are shown.
InsightsGenerated ==
    /\ pc = "button"
    /\ button' = TRUE
    /\ insight_messages' = InsightMessages
    /\ requests' = SendRequest(requests, "insights", InsightMessages)
    /\ display' = Append(display, "insights")
    /\ pc' = "done"
    /\ UNCHANGED <<filterVars, trimVars, user_question, messages,
                   trimmed_messages, chart_config, df_to_plot, response,
                   raised>>

\* st.button returns True, the request is sent and the call raises.
InsightsFail ==
    /\ pc = "button"
    /\ button' = TRUE
    /\ insight_messages' = InsightMessages
    /\ requests' = SendRequest(requests, "insights", InsightMessages)
    /\ raised' = Append(raised, [site |-> "insights", kind |-> "api"])
    /\ display' = Append(display, "error_insights")
    /\ pc' = "done"
    /\ UNCHANGED <<filterVars, trimVars, user_question, messages,
                   trimmed_messages, chart_config, df_to_plot, response>>

Next ==
    \/ LoadData
    \/ DataFileMissing
    \/ ApplyFilters
    \/ Preview
    \/ PreviewEmpty
    \/ NoQuestion
    \/ QuestionEntered
    \/ QuestionRequestFails
    \/ QuestionAnswered
    \/ ToolCallMalformed
    \/ ToolCallParsed
    \/ ChartFilterRaises
    \/ ChartNoData
    \/ ChartData
    \/ ChartKeyError
    \/ ChartRendered
    \/ ChartRenderFails
    \/ ChartUnsupported
    \/ ButtonNotPressed
    \/ InsightsGenerated
    \/ InsightsFail

Spec == Init /\ [][Next]_vars

Shown == {display[i] : i \in 1..Len(display)}

Occurrences(q, x) == Cardinality({i \in 1..Len(q) : q[i] = x})

Attempts(path) == Cardinality({i \in 1..Len(requests) : requests[i].path = path})

RaisedAt(site) == Cardinality({i \in 1..Len(raised) : raised[i].site = site})

\* The conversation a request was built from.
ConversationOf(path) ==
    IF path = "question" THEN messages ELSE insight_messages

\* C7: every request, on the question path and on the insights path alike,
\* carries the list trim_messages returns for its conversation.
C7_EveryRequestTrimmed ==
    \A i \in 1..Len(requests) :
        requests[i].messages =
            trim_messages(ConversationOf(requests[i].path), MAX_TOKENS)

\* The question path, taken alone, sends the trimmed conversation.
C7_QuestionRequestTrimmed ==
    \A i \in 1..Len(requests) :
        requests[i].path = "question" =>
            requests[i].messages = trim_messages(messages, MAX_TOKENS)

QuestionSent == pc \notin {"load", "filters", "preview", "text_input",
                           "question_request"}

\* C8: a submitted question and a press of the insights button each issue
\* exactly one request; an error raised by the call or by the parsing of
\* the tool-call arguments is caught at its call site and shown, and no
\* second request follows it.
C8_OneAttemptErrorsShown ==
    /\ Attempts("question") = IF user_question /\ QuestionSent THEN 1 ELSE 0
    /\ Attempts("insights") = IF button THEN 1 ELSE 0
    /\ RaisedAt("question") <= 1
    /\ RaisedAt("insights") <= 1
    /\ Occurrences(display, "error_occurred") = RaisedAt("question")
    /\ Occurrences(display, "error_insights") = RaisedAt("insights")

\* Both paths ran, both raised: the arguments did not parse and the
\* insights call failed.
C8_Witness ==
    /\ pc = "done"
    /\ user_question
    /\ button
    /\ raised = <<[site |-> "question", kind |-> "json"],
                  [site |-> "insights", kind |-> "api"]>>
    /\ Len(requests) = 2
    /\ {"error_occurred", "error_insights"} \subseteq Shown

ChartFilterOf(config) == Get(config, "filter", <<>>)

ToolCallFiltered ==
    /\ response = "tool_call"
    /\ pc # "chart_filter"
    /\ ~FilterRaises(ChartFilterOf(chart_config))

\* C9: when the chart config's filters leave no row of the filtered table,
\* the no-data warning is shown and no chart is rendered in the run; the
\* rows to plot are always rows of the filtered table.
C9_NoDataNoChart ==
    /\ (ToolCallFiltered
          /\ ApplyChartFilter(filtered_df, ChartFilterOf(chart_config)) = <<>>)
         => /\ "warning_no_chart_data" \in Shown
            /\ "chart" \notin Shown
    /\ Rows(df_to_plot) \subseteq Rows(filtered_df)

\* The table has a row the chart filter accepts, the sidebar filter has
\* removed it, and so the chart has no data.
C9_Witness ==
    /\ pc = "done"
    /\ ToolCallFiltered
    /\ ChartFilterOf(chart_config) # <<>>
    /\ ApplyChartFilter(df, ChartFilterOf(chart_config)) # <<>>
    /\ ApplyChartFilter(filtered_df, ChartFilterOf(chart_config)) = <<>>
    /\ "warning_no_chart_data" \in Shown

RunOver == pc \in {"done", "stopped"}

UnsupportedOutcome ==
    /\ "warning_unsupported_type" \in Shown
    /\ "chart_config_json" \in Shown
    /\ "chart" \notin Shown
    /\ "error_occurred" \notin Shown

\* C10 as stated: with data to plot and a type that is none of pie, bar,
\* line, the warning and the raw config are shown, no chart is rendered and
\* no caught error is reported.
C10_UnsupportedTypeWarns ==
    (/\ RunOver
     /\ ToolCallFiltered
     /\ df_to_plot # <<>>
     /\ "type" \in DOMAIN chart_config
     /\ chart_config["type"] \notin SupportedTypes)
        => UnsupportedOutcome

\* C10 amended: the same, for a config that carries an x entry.
C10_UnsupportedTypeWithXWarns ==
    (/\ RunOver
     /\ ToolCallFiltered
     /\ df_to_plot # <<>>
     /\ {"type", "x"} \subseteq DOMAIN chart_config
     /\ chart_config["type"] \notin SupportedTypes)
        => UnsupportedOutcome

C10_Witness ==
    /\ pc = "stopped"
    /\ ToolCallFiltered
    /\ df_to_plot # <<>>
    /\ {"type", "x"} \subseteq DOMAIN chart_config
    /\ chart_config["type"] = "scatter"
    /\ UnsupportedOutcome

====
